---- MODULE Spec2Model ----
(***************************************************************************)
(* VideoService (src/lib/video-service.ts): the dual-mode client of the    *)
(* video API.  A JavaScript string is a sequence of tokens: a token is one *)
(* character ("8", "x", "&") or an opaque run of characters that no        *)
(* operation here looks inside ("sora-2", "/api/videos/").                 *)
(***************************************************************************)
EXTENDS Integers, Sequences, FiniteSets

\* Longest duration string and longest size string a caller passes.
MaxSecLen == 2
MaxSizeLen == 3

----------------------------------------------------------------------------
\* JavaScript values that the service tests for truthiness or serialises.

JsUndefined == [t |-> "undefined", s |-> <<>>, n |-> 0]
JsNull == [t |-> "null", s |-> <<>>, n |-> 0]
JsNaN == [t |-> "NaN", s |-> <<>>, n |-> 0]
JsStr(str) == [t |-> "string", s |-> str, n |-> 0]
JsNum(num) == [t |-> "number", s |-> <<>>, n |-> num]
\* A File object, named by its file name.
JsFile(name) == [t |-> "file", s |-> name, n |-> 0]

\* ToBoolean: undefined, null, "", 0 and NaN are falsy; an object is truthy.
Truthy(v) ==
    CASE v.t = "string" -> v.s # <<>>
      [] v.t = "number" -> v.n # 0
      [] v.t = "file" -> TRUE
      [] OTHER -> FALSE

Digits == {"0", "1", "2", "3", "4", "5", "6", "7", "8", "9"}
WhiteSpace == {" "}

DigitVal(c) ==
    CASE c = "0" -> 0 [] c = "1" -> 1 [] c = "2" -> 2 [] c = "3" -> 3
      [] c = "4" -> 4 [] c = "5" -> 5 [] c = "6" -> 6 [] c = "7" -> 7
      [] c = "8" -> 8 [] c = "9" -> 9

DigitChar(d) == CHOOSE c \in Digits : DigitVal(c) = d

RECURSIVE NatToString(_)
NatToString(k) ==
    IF k < 10 THEN <<DigitChar(k)>>
    ELSE NatToString(k \div 10) \o <<DigitChar(k % 10)>>

\* value.toString() of a number | string (line 24).
toString(v) ==
    CASE v.t = "string" -> v.s
      [] v.t = "number" ->
            IF v.n < 0 THEN <<"-">> \o NatToString(-v.n) ELSE NatToString(v.n)
      [] v.t = "NaN" -> <<"N", "a", "N">>

RECURSIVE SkipWhiteSpace(_)
SkipWhiteSpace(str) ==
    IF str # <<>> /\ Head(str) \in WhiteSpace THEN SkipWhiteSpace(Tail(str))
    ELSE str

RECURSIVE DigitPrefix(_)
DigitPrefix(str) ==
    IF str # <<>> /\ Head(str) \in Digits
    THEN <<Head(str)>> \o DigitPrefix(Tail(str))
    ELSE <<>>

RECURSIVE DigitsToNat(_)
DigitsToNat(ds) ==
    IF ds = <<>> THEN 0
    ELSE 10 * DigitsToNat(SubSeq(ds, 1, Len(ds) - 1)) + DigitVal(ds[Len(ds)])

\* parseInt(str, 10): leading white space is skipped, one sign is read, the
\* longest run of decimal digits is the number and whatever follows it is
\* ignored; no digit at all is NaN.
parseInt(str) ==
    LET trimmed == SkipWhiteSpace(str)
        signed == trimmed # <<>> /\ Head(trimmed) \in {"-", "+"}
        body == IF signed THEN Tail(trimmed) ELSE trimmed
        ds == DigitPrefix(body)
        neg == signed /\ Head(trimmed) = "-"
    IN  IF ds = <<>> THEN [nan |-> TRUE, n |-> 0]
        ELSE [nan |-> FALSE, n |-> IF neg THEN 0 - DigitsToNat(ds) ELSE DigitsToNat(ds)]

\* A value the service throws itself: new Error(message), new InvalidApiKeyError().
NewError(cls, message) ==
    [t |-> "object", isError |-> TRUE, cls |-> cls, status |-> JsUndefined,
     code |-> JsUndefined, message |-> message, origin |-> "service"]

Returned(v) == [threw |-> FALSE, value |-> v, error |-> NewError("none", <<>>)]
Threw(e) == [threw |-> TRUE, value |-> <<>>, error |-> e]

normalizeSeconds(value) ==
    LET secondsValue == toString(value)
        numericValue == parseInt(secondsValue)
    IN  IF numericValue.nan \/ numericValue.n <= 0
        THEN Threw(NewError("Error",
                <<"Invalid duration: ">> \o secondsValue
                    \o <<". Duration must be a positive number.">>))
        ELSE Returned(secondsValue)

\* The regular expression with * where the source has +.
SizeRegexTest_star(str) ==
    \E k \in 1..Len(str) :
        /\ str[k] = "x"
        /\ \A j \in 1..(k - 1) : str[j] \in Digits
        /\ \A j \in (k + 1)..Len(str) : str[j] \in Digits

\* /^\d+x\d+$/.test(str): one or more digits, "x", one or more digits, and
\* nothing before or after.
SizeRegexTest(str) ==
    \E k \in 2..(Len(str) - 1) :
        /\ str[k] = "x"
        /\ \A j \in 1..(k - 1) : str[j] \in Digits
        /\ \A j \in (k + 1)..Len(str) : str[j] \in Digits

normalizeSize(value) ==
    IF ~SizeRegexTest(value)
    THEN Threw(NewError("Error",
            <<"Invalid video size format: ">> \o value
                \o <<". Must be in format WIDTHxHEIGHT (e.g., 1280x720)">>))
    ELSE Returned(value)

----------------------------------------------------------------------------
\* The values callers, the provider SDK and the backend supply.

RECURSIVE StringsUpTo(_, _)
StringsUpTo(alphabet, k) ==
    IF k = 0 THEN {<<>>}
    ELSE LET shorter == StringsUpTo(alphabet, k - 1)
         IN  shorter \cup {<<c>> \o str : c \in alphabet, str \in {x \in shorter : Len(x) = k - 1}}

\* seconds: number | string.
SecondsInputs ==
    {JsStr(str) : str \in StringsUpTo({"0", "8", "a"}, MaxSecLen)}
        \cup {JsNum(k) : k \in {-1, 0, 4, 12}} \cup {JsNaN}
SizeInputs == StringsUpTo({"1", "x", "a"}, MaxSizeLen)
Models == {<<"sora-2">>}
Prompts == {<<"cat">>}
References == {JsNull, JsFile(<<"cat.png">>)}
VideoIds == {<<"video_1">>}
Variants == {JsUndefined, JsStr(<<"video">>), JsStr(<<"thumbnail">>)}

ApiKeys == {JsUndefined, JsNull, JsStr(<<>>), JsStr(<<"sk-live">>)}
PasswordHashes == {JsUndefined, JsNull, JsStr(<<>>), JsStr(<<"h", "7", "&", "%">>)}

ServiceConfig ==
    [mode : {"backend", "frontend"}, clientApiKey : ApiKeys,
     clientPasswordHash : PasswordHashes, baseURL : {JsUndefined}]

\* The JSON values the provider and the backend answer with: a job, or an
\* error body.
Json(id, status, error) == [id |-> id, status |-> status, error |-> error]
Jobs ==
    {Json(JsStr(<<"video_1">>), JsStr(<<"queued">>), JsNull),
     Json(JsStr(<<"video_1">>), JsStr(<<"failed">>), JsStr(<<"moderation">>))}
ErrorBodies ==
    {Json(JsUndefined, JsUndefined, e) :
        e \in {JsStr(<<"quota exceeded">>), JsStr(<<>>), JsNull, JsUndefined}}
NoJson == Json(JsUndefined, JsUndefined, JsUndefined)
Blobs == {<<"bytes-A">>, <<"bytes-B">>}

\* What the provider SDK rejects with: an APIError, a plain object, or a
\* primitive.
SdkThrown ==
    {[t |-> "object", isError |-> b, cls |-> IF b THEN "APIError" ELSE "Object",
      status |-> st, code |-> cd, message |-> m, origin |-> "sdk"] :
        b \in BOOLEAN,
        st \in {JsUndefined, JsNum(401), JsNum(403), JsNum(500), JsStr(<<"401">>)},
        cd \in {JsUndefined, JsStr(<<"invalid_api_key">>), JsStr(<<"rate_limit_exceeded">>)},
        m \in {<<"Incorrect API key provided">>, <<"Rate limit reached">>}}
    \cup
    {[t |-> ty, isError |-> FALSE, cls |-> "none", status |-> JsUndefined,
      code |-> JsUndefined, message |-> <<>>, origin |-> "sdk"] :
        ty \in {"string", "undefined", "null"}}

\* What fetch, response.json() and response.blob() reject with.
RuntimeError(cls, message) ==
    [t |-> "object", isError |-> TRUE, cls |-> cls, status |-> JsUndefined,
     code |-> JsUndefined, message |-> message, origin |-> "runtime"]

StatusText(status) ==
    CASE status = 200 -> <<"OK">>
      [] status = 401 -> <<"Unauthorized">>
      [] status = 429 -> <<"Too Many Requests">>
      [] status = 500 -> <<"Internal Server Error">>

\* A body is JSON text of an object, the JSON text null, text that is no
\* JSON (or nothing at all), or a stream that breaks while it is read.
Bodies ==
    {[kind |-> "json", json |-> j, bytes |-> b] : j \in Jobs \cup ErrorBodies, b \in {<<"bytes-A">>}}
    \cup {[kind |-> k, json |-> NoJson, bytes |-> b] : k \in {"null", "invalid", "aborted"}, b \in Blobs}
Responses ==
    {[status |-> st, statusText |-> StatusText(st), body |-> b] :
        st \in {200, 401, 429, 500}, b \in Bodies}
NoResponse ==
    [status |-> 0, statusText |-> <<>>,
     body |-> [kind |-> "none", json |-> NoJson, bytes |-> <<>>]]

\* ok taken as anything below 500.
Ok_below500(response) == response.status < 500

\* response.ok
Ok(response) == response.status >= 200 /\ response.status <= 299

----------------------------------------------------------------------------
\* One VideoService and the invocations of its methods.  An async method runs
\* to its first await in one step; each later step is the settling of the
\* promise it awaits, followed by the code up to the next await or the end.

Calls == {1, 2}

VARIABLES
    config,     \* this.config, set by the constructor and never written again
    pc,         \* where each invocation is
    op,         \* the method each invocation runs
    args,       \* its arguments
    clients,    \* the SDK clients it built: createFrontendOpenAI(apiKey, baseURL)
    issued,     \* the transport calls it made: SDK calls and fetches, in order
    settled,    \* how the promise of its SDK call or fetch settled, when not with a Response
    response,   \* the Response (or SDK content) it holds while it reads the body
    outcome     \* how its promise settled

vars == <<config, pc, op, args, clients, issued, settled, response, outcome>>

NoArgs ==
    [model |-> <<>>, prompt |-> <<>>, size |-> <<>>, seconds |-> JsUndefined,
     input_reference |-> JsUndefined, videoId |-> <<>>, variant |-> JsUndefined]
Pending == [state |-> "pending", kind |-> "none", json |-> NoJson, bytes |-> <<>>,
            error |-> NewError("none", <<>>)]
FulfilledJson(j) == [Pending EXCEPT !.state = "fulfilled", !.kind = "json", !.json = j]
FulfilledBlob(b) == [Pending EXCEPT !.state = "fulfilled", !.kind = "blob", !.bytes = b]
FulfilledVoid == [Pending EXCEPT !.state = "fulfilled", !.kind = "void"]
Rejected(e) == [Pending EXCEPT !.state = "rejected", !.error = e]

Init ==
    /\ config \in ServiceConfig
    /\ pc = [i \in Calls |-> "idle"]
    /\ op = [i \in Calls |-> "none"]
    /\ args = [i \in Calls |-> NoArgs]
    /\ clients = [i \in Calls |-> <<>>]
    /\ issued = [i \in Calls |-> <<>>]
    /\ settled = [i \in Calls |-> Pending]
    /\ response = [i \in Calls |-> NoResponse]
    /\ outcome = [i \in Calls |-> Pending]

----------------------------------------------------------------------------
\* The requests the service builds.

Entry(name, value) == [name |-> name, value |-> value]

SdkCall(method, target, params) ==
    [via |-> "sdk", method |-> method, target |-> target, headers |-> <<>>,
     bodyKind |-> "params", body |-> params]
FetchCall(url, method, headers, bodyKind, body) ==
    [via |-> "fetch", method |-> method, target |-> url, headers |-> headers,
     bodyKind |-> bodyKind, body |-> body]

\* createFrontendOpenAI(this.config.clientApiKey, this.config.baseURL)
createFrontendOpenAI(apiKey, baseURL) == [apiKey |-> apiKey, baseURL |-> baseURL]

\* The check as clientApiKey == null: an empty key passes.
ApiKeyMissing_nullish(cfg) == cfg.clientApiKey \in {JsUndefined, JsNull}

\* !this.config.clientApiKey
ApiKeyMissing(cfg) == ~Truthy(cfg.clientApiKey)

\* JSON.stringify of an object literal: a property whose value is undefined
\* is left out, one whose value is null is written as null.
JSONstringify(props) == SelectSeq(props, LAMBDA e : e.value # JsUndefined)

\* encodeURIComponent: letters, digits and - _ . ! ~ * ' ( ) stay, every
\* other character becomes % and its two hexadecimal digits.
PercentCode(c) ==
    CASE c = "&" -> <<"%", "2", "6">>
      [] c = "%" -> <<"%", "2", "5">>
      [] c = "=" -> <<"%", "3", "D">>
      [] c = "?" -> <<"%", "3", "F">>
      [] c = "/" -> <<"%", "2", "F">>
      [] c = "#" -> <<"%", "2", "3">>
      [] c = "+" -> <<"%", "2", "B">>
      [] c = " " -> <<"%", "2", "0">>
      [] OTHER -> <<c>>

\* The hash put in the URL as it is.
encodeURIComponent_raw(str) == str

RECURSIVE encodeURIComponent(_)
encodeURIComponent(str) ==
    IF str = <<>> THEN <<>>
    ELSE PercentCode(Head(str)) \o encodeURIComponent(Tail(str))

\* createVideo, frontend: createParams (lines 76-85).
createParams(params, normalizedSize, normalizedSeconds) ==
    <<Entry("model", JsStr(params.model)), Entry("prompt", JsStr(params.prompt)),
      Entry("size", JsStr(normalizedSize)), Entry("seconds", JsStr(normalizedSeconds))>>
    \o (IF Truthy(params.input_reference)
        THEN <<Entry("input_reference", params.input_reference)>> ELSE <<>>)

\* The form with passwordHash appended whether or not a hash is set.
apiFormData_alwaysHash(cfg, params, normalizedSize, normalizedSeconds) ==
    <<Entry("passwordHash", cfg.clientPasswordHash),
      Entry("model", JsStr(params.model)), Entry("prompt", JsStr(params.prompt)),
      Entry("size", JsStr(normalizedSize)), Entry("seconds", JsStr(normalizedSeconds))>>
    \o (IF Truthy(params.input_reference)
        THEN <<Entry("input_reference", params.input_reference)>> ELSE <<>>)

\* createVideo, backend: apiFormData (lines 95-107).
apiFormData(cfg, params, normalizedSize, normalizedSeconds) ==
    (IF Truthy(cfg.clientPasswordHash)
     THEN <<Entry("passwordHash", cfg.clientPasswordHash)>> ELSE <<>>)
    \o <<Entry("model", JsStr(params.model)), Entry("prompt", JsStr(params.prompt)),
         Entry("size", JsStr(normalizedSize)), Entry("seconds", JsStr(normalizedSeconds))>>
    \o (IF Truthy(params.input_reference)
        THEN <<Entry("input_reference", params.input_reference)>> ELSE <<>>)

\* The header filled from the API key when no hash is set.
passwordHeaders_keyFallback(cfg) ==
    IF Truthy(cfg.clientPasswordHash)
    THEN <<Entry("x-password-hash", cfg.clientPasswordHash)>>
    ELSE IF Truthy(cfg.clientApiKey)
    THEN <<Entry("x-password-hash", cfg.clientApiKey)>> ELSE <<>>

\* headers: this.config.clientPasswordHash ? {'x-password-hash': ...} : {}
passwordHeaders(cfg) ==
    IF Truthy(cfg.clientPasswordHash)
    THEN <<Entry("x-password-hash", cfg.clientPasswordHash)>> ELSE <<>>

createFetch(cfg, params, normalizedSize, normalizedSeconds) ==
    FetchCall(<<"/api/videos">>, "POST", <<>>, "form",
              apiFormData(cfg, params, normalizedSize, normalizedSeconds))

remixFetch(cfg, sourceVideoId, prompt) ==
    FetchCall(<<"/api/videos/">> \o sourceVideoId \o <<"/remix">>, "POST",
              <<Entry("Content-Type", JsStr(<<"application/json">>))>>, "json",
              JSONstringify(<<Entry("prompt", JsStr(prompt)),
                              Entry("passwordHash", cfg.clientPasswordHash)>>))

retrieveFetch(cfg, videoId) ==
    FetchCall(<<"/api/videos/">> \o videoId, "GET", passwordHeaders(cfg), "none", <<>>)

deleteFetch(cfg, videoId) ==
    FetchCall(<<"/api/videos/">> \o videoId, "DELETE", passwordHeaders(cfg), "none", <<>>)

\* The parameter with no default value.
defaultVariant_none(variant) == variant

\* variant: 'video' | 'thumbnail' | 'spritesheet' = 'video'
defaultVariant(variant) == IF variant = JsUndefined THEN JsStr(<<"video">>) ELSE variant

downloadFetch(cfg, videoId, variant) ==
    LET url == <<"/api/videos/">> \o videoId \o <<"/content?variant=">> \o variant.s
        fullUrl == IF Truthy(cfg.clientPasswordHash)
                   THEN url \o <<"&password-hash=">>
                            \o encodeURIComponent(cfg.clientPasswordHash.s)
                   ELSE url
    IN  FetchCall(fullUrl, "GET", passwordHeaders(cfg), "none", <<>>)

\* The handler with status and code read only from Error instances.
handleFrontendError_errorsOnly(error) ==
    IF /\ error.t = "object"
       /\ error.isError
       /\ \/ error.status.t = "number" /\ error.status.n \in {401, 403}
          \/ error.code = JsStr(<<"invalid_api_key">>)
    THEN NewError("InvalidApiKeyError", <<"InvalidApiKeyError">>)
    ELSE IF error.isError THEN error
    ELSE NewError("Error", <<"Unexpected error while communicating with OpenAI.">>)

\* The handler wrapping whatever is left in a new Error.
handleFrontendError_wrapAll(error) ==
    IF /\ error.t = "object"
       /\ \/ error.status.t = "number" /\ error.status.n \in {401, 403}
          \/ error.code = JsStr(<<"invalid_api_key">>)
    THEN NewError("InvalidApiKeyError", <<"InvalidApiKeyError">>)
    ELSE NewError("Error", <<"Unexpected error while communicating with OpenAI.">>)

handleFrontendError(error) ==
    IF /\ error.t = "object"
       /\ \/ error.status.t = "number" /\ error.status.n \in {401, 403}
          \/ error.code = JsStr(<<"invalid_api_key">>)
    THEN NewError("InvalidApiKeyError", <<"InvalidApiKeyError">>)
    ELSE IF error.isError THEN error
    ELSE NewError("Error", <<"Unexpected error while communicating with OpenAI.">>)

----------------------------------------------------------------------------
\* The steps of an invocation.

Begin(i, method, a) ==
    /\ op' = [op EXCEPT ![i] = method]
    /\ args' = [args EXCEPT ![i] = a]

Settle(i, o) ==
    /\ pc' = [pc EXCEPT ![i] = "done"]
    /\ outcome' = [outcome EXCEPT ![i] = o]

Await(i, label) ==
    /\ pc' = [pc EXCEPT ![i] = label]
    /\ UNCHANGED outcome

\* The frontend branch of every method: the key check, the client, the call.
Frontend(i, call) ==
    IF ApiKeyMissing(config)
    THEN /\ Settle(i, Rejected(NewError("Error", <<"API key is required for frontend mode">>)))
         /\ UNCHANGED <<clients, issued>>
    ELSE /\ clients' = [clients EXCEPT ![i] =
                Append(@, createFrontendOpenAI(config.clientApiKey, config.baseURL))]
         /\ issued' = [issued EXCEPT ![i] = Append(@, call)]
         /\ Await(i, "awaitSdk")

\* The backend branch of every method: the fetch.
Backend(i, request) ==
    /\ issued' = [issued EXCEPT ![i] = Append(@, request)]
    /\ Await(i, "awaitFetch")
    /\ UNCHANGED clients

createVideo(i) ==
    /\ pc[i] = "idle"
    /\ \E model \in Models, prompt \in Prompts, size \in SizeInputs,
          seconds \in SecondsInputs, input_reference \in References :
        LET params == [NoArgs EXCEPT !.model = model, !.prompt = prompt, !.size = size,
                           !.seconds = seconds, !.input_reference = input_reference]
            normalizedSeconds == normalizeSeconds(params.seconds)
            normalizedSize == normalizeSize(params.size)
        IN  /\ Begin(i, "createVideo", params)
            /\ UNCHANGED <<config, settled, response>>
            /\ IF normalizedSeconds.threw
               THEN Settle(i, Rejected(normalizedSeconds.error)) /\ UNCHANGED <<clients, issued>>
               ELSE IF normalizedSize.threw
               THEN Settle(i, Rejected(normalizedSize.error)) /\ UNCHANGED <<clients, issued>>
               ELSE IF config.mode = "frontend"
               THEN Frontend(i, SdkCall("videos.create", <<>>,
                        createParams(params, normalizedSize.value, normalizedSeconds.value)))
               ELSE Backend(i, createFetch(config, params, normalizedSize.value,
                                           normalizedSeconds.value))

remixVideo(i) ==
    /\ pc[i] = "idle"
    /\ \E sourceVideoId \in VideoIds, prompt \in Prompts :
        /\ Begin(i, "remixVideo", [NoArgs EXCEPT !.videoId = sourceVideoId, !.prompt = prompt])
        /\ UNCHANGED <<config, settled, response>>
        /\ IF config.mode = "frontend"
           THEN Frontend(i, SdkCall("videos.remix", sourceVideoId,
                                    <<Entry("prompt", JsStr(prompt))>>))
           ELSE Backend(i, remixFetch(config, sourceVideoId, prompt))

retrieveVideo(i) ==
    /\ pc[i] = "idle"
    /\ \E videoId \in VideoIds :
        /\ Begin(i, "retrieveVideo", [NoArgs EXCEPT !.videoId = videoId])
        /\ UNCHANGED <<config, settled, response>>
        /\ IF config.mode = "frontend"
           THEN Frontend(i, SdkCall("videos.retrieve", videoId, <<>>))
           ELSE Backend(i, retrieveFetch(config, videoId))

\* deleteVideo sharing the request of a delete of the same video in flight.
deleteVideo_shared(i) ==
    /\ pc[i] = "idle"
    /\ \E videoId \in VideoIds :
        /\ Begin(i, "deleteVideo", [NoArgs EXCEPT !.videoId = videoId])
        /\ UNCHANGED <<config, settled, response>>
        /\ IF \E j \in Calls \ {i} :
                /\ op[j] = "deleteVideo"
                /\ args[j].videoId = videoId
                /\ pc[j] \in {"awaitSdk", "awaitFetch", "awaitErrorJson"}
           THEN Settle(i, FulfilledVoid) /\ UNCHANGED <<clients, issued>>
           ELSE IF config.mode = "frontend"
           THEN Frontend(i, SdkCall("videos.delete", videoId, <<>>))
           ELSE Backend(i, deleteFetch(config, videoId))

deleteVideo(i) ==
    /\ pc[i] = "idle"
    /\ \E videoId \in VideoIds :
        /\ Begin(i, "deleteVideo", [NoArgs EXCEPT !.videoId = videoId])
        /\ UNCHANGED <<config, settled, response>>
        /\ IF config.mode = "frontend"
           THEN Frontend(i, SdkCall("videos.delete", videoId, <<>>))
           ELSE Backend(i, deleteFetch(config, videoId))

downloadContent(i) ==
    /\ pc[i] = "idle"
    /\ \E videoId \in VideoIds, passed \in Variants :
        LET variant == defaultVariant(passed)
        IN  /\ Begin(i, "downloadContent",
                     [NoArgs EXCEPT !.videoId = videoId, !.variant = passed])
            /\ UNCHANGED <<config, settled, response>>
            /\ IF config.mode = "frontend"
               THEN Frontend(i, SdkCall("videos.downloadContent", videoId,
                                        <<Entry("variant", variant)>>))
               ELSE Backend(i, downloadFetch(config, videoId, variant))

\* The job copied without its status.
asVideoJob_noStatus(video) == [video EXCEPT !.status = JsUndefined]

\* return video as VideoJob
asVideoJob(video) == video

\* await openai.videos.<method>(...) resolves.
SdkFulfilled(i) ==
    /\ pc[i] = "awaitSdk"
    /\ UNCHANGED <<config, op, args, clients, issued>>
    /\ CASE op[i] \in {"createVideo", "remixVideo", "retrieveVideo"} ->
                \E video \in Jobs :
                    /\ settled' = [settled EXCEPT ![i] = FulfilledJson(video)]
                    /\ Settle(i, FulfilledJson(asVideoJob(video)))
                    /\ UNCHANGED response
         [] op[i] = "deleteVideo" ->
                /\ settled' = [settled EXCEPT ![i] = FulfilledVoid]
                /\ Settle(i, FulfilledVoid)
                /\ UNCHANGED response
         [] op[i] = "downloadContent" ->
                \E content \in {r \in Responses : Ok(r)} :
                    /\ settled' = [settled EXCEPT ![i] = FulfilledVoid]
                    /\ response' = [response EXCEPT ![i] = content]
                    /\ Await(i, "awaitContentBlob")

\* await openai.videos.<method>(...) rejects: catch (error) { handleFrontendError }.
SdkRejected(i) ==
    /\ pc[i] = "awaitSdk"
    /\ \E error \in SdkThrown :
        /\ settled' = [settled EXCEPT ![i] = Rejected(error)]
        /\ Settle(i, Rejected(handleFrontendError(error)))
    /\ UNCHANGED <<config, op, args, clients, issued, response>>

\* await content.blob(), inside the same try.
ContentBlob(i) ==
    /\ pc[i] = "awaitContentBlob"
    /\ IF response[i].body.kind = "aborted"
       THEN /\ settled' = [settled EXCEPT ![i] =
                    Rejected(RuntimeError("TypeError", <<"Failed to fetch">>))]
            /\ Settle(i, Rejected(handleFrontendError(
                    RuntimeError("TypeError", <<"Failed to fetch">>))))
       ELSE /\ Settle(i, FulfilledBlob(response[i].body.bytes))
            /\ UNCHANGED settled
    /\ UNCHANGED <<config, op, args, clients, issued, response>>

\* A rejected fetch tried once more before giving up.
FetchRejected_retry(i) ==
    /\ pc[i] = "awaitFetch"
    /\ IF Len(issued[i]) < 2
       THEN /\ issued' = [issued EXCEPT ![i] = Append(@, issued[i][1])]
            /\ UNCHANGED <<pc, outcome, settled>>
       ELSE /\ settled' = [settled EXCEPT ![i] =
                    Rejected(RuntimeError("TypeError", <<"Failed to fetch">>))]
            /\ Settle(i, Rejected(RuntimeError("TypeError", <<"Failed to fetch">>)))
            /\ UNCHANGED issued
    /\ UNCHANGED <<config, op, args, clients, response>>

\* await fetch(...) rejects: nothing catches it.
FetchRejected(i) ==
    /\ pc[i] = "awaitFetch"
    /\ settled' = [settled EXCEPT ![i] =
            Rejected(RuntimeError("TypeError", <<"Failed to fetch">>))]
    /\ Settle(i, Rejected(RuntimeError("TypeError", <<"Failed to fetch">>)))
    /\ UNCHANGED <<config, op, args, clients, issued, response>>

\* await fetch(...) resolves with a Response; if (!response.ok) ...
FetchFulfilled(i) ==
    /\ pc[i] = "awaitFetch"
    /\ UNCHANGED <<config, op, args, clients, issued, settled>>
    /\ \E r \in Responses :
        /\ response' = [response EXCEPT ![i] = r]
        /\ CASE op[i] \in {"createVideo", "remixVideo"} ->
                    IF ~Ok(r) THEN Await(i, "awaitErrorJson") ELSE Await(i, "awaitJson")
             [] op[i] = "retrieveVideo" ->
                    IF ~Ok(r)
                    THEN Settle(i, Rejected(NewError("Error",
                            <<"Failed to fetch job status: ">> \o r.statusText)))
                    ELSE Await(i, "awaitJson")
             [] op[i] = "deleteVideo" ->
                    IF ~Ok(r) THEN Await(i, "awaitErrorJson") ELSE Settle(i, FulfilledVoid)
             [] op[i] = "downloadContent" ->
                    IF ~Ok(r)
                    THEN Settle(i, Rejected(NewError("Error",
                            <<"Failed to download ">> \o defaultVariant(args[i].variant).s
                                \o <<": ">> \o r.statusText)))
                    ELSE Await(i, "awaitBlob")

\* The message used when the error body has no usable error field.
fallbackMessage(method, r) ==
    IF method = "deleteVideo" THEN <<"Failed to delete video">>
    ELSE <<"API request failed with status ">> \o NatToString(r.status)

\* result.error || fallback, as the message of new Error(...)
errorMessage(result, fallback) ==
    IF Truthy(result.error) THEN toString(result.error) ELSE fallback

\* response.json() of a body
jsonOf(body) ==
    CASE body.kind = "json" -> Returned(body.json)
      [] body.kind = "null" -> Returned(NoJson)
      [] body.kind = "invalid" ->
            Threw(RuntimeError("SyntaxError", <<"Unexpected token in JSON">>))
      [] body.kind = "aborted" -> Threw(RuntimeError("TypeError", <<"Failed to fetch">>))

\* const result = await response.json(); throw new Error(result.error || ...)
ErrorJson(i) ==
    /\ pc[i] = "awaitErrorJson"
    /\ LET result == jsonOf(response[i].body)
       IN  IF result.threw THEN Settle(i, Rejected(result.error))
           ELSE IF response[i].body.kind = "null"
           THEN Settle(i, Rejected(RuntimeError("TypeError",
                    <<"Cannot read properties of null (reading 'error')">>)))
           ELSE Settle(i, Rejected(NewError("Error",
                    errorMessage(result.value, fallbackMessage(op[i], response[i])))))
    /\ UNCHANGED <<config, op, args, clients, issued, settled, response>>

\* return await response.json()
ResponseJson(i) ==
    /\ pc[i] = "awaitJson"
    /\ LET result == jsonOf(response[i].body)
       IN  IF result.threw THEN Settle(i, Rejected(result.error))
           ELSE IF response[i].body.kind = "null"
           THEN Settle(i, [Pending EXCEPT !.state = "fulfilled", !.kind = "null"])
           ELSE Settle(i, FulfilledJson(result.value))
    /\ UNCHANGED <<config, op, args, clients, issued, settled, response>>

\* return await response.blob()
ResponseBlob(i) ==
    /\ pc[i] = "awaitBlob"
    /\ IF response[i].body.kind = "aborted"
       THEN Settle(i, Rejected(RuntimeError("TypeError", <<"Failed to fetch">>)))
       ELSE Settle(i, FulfilledBlob(response[i].body.bytes))
    /\ UNCHANGED <<config, op, args, clients, issued, settled, response>>

\* One invocation at a time.
Sequential == {1}

Next ==
    \E i \in Sequential :
        \/ createVideo(i)
        \/ remixVideo(i)
        \/ retrieveVideo(i)
        \/ deleteVideo(i)
        \/ downloadContent(i)
        \/ SdkFulfilled(i)
        \/ SdkRejected(i)
        \/ ContentBlob(i)
        \/ FetchFulfilled(i)
        \/ FetchRejected(i)
        \/ ErrorJson(i)
        \/ ResponseJson(i)
        \/ ResponseBlob(i)

Spec == Init /\ [][Next]_vars

\* deleteVideo invoked twice on the one service, the second while the first
\* is still in flight or after it.
NextRace ==
    \E i \in Calls :
        \/ deleteVideo(i)
        \/ SdkFulfilled(i)
        \/ SdkRejected(i)
        \/ FetchFulfilled(i)
        \/ FetchRejected(i)
        \/ ErrorJson(i)

SpecRace == Init /\ [][NextRace]_vars

----------------------------------------------------------------------------
\* Properties.

Invoked == {i \in Calls : op[i] # "none"}

IsDurationError(e) ==
    e.cls = "Error" /\ e.origin = "service" /\ Head(e.message) = "Invalid duration: "
IsSizeError(e) ==
    e.cls = "Error" /\ e.origin = "service" /\ Head(e.message) = "Invalid video size format: "
IsConfigurationError(e) ==
    e.cls = "Error" /\ e.origin = "service"
        /\ e.message = <<"API key is required for frontend mode">>

\* A string that reads as a decimal number: an optional sign and digits only.
NumericText(str) ==
    LET body == IF str # <<>> /\ Head(str) \in {"-", "+"} THEN Tail(str) ELSE str
    IN  body # <<>> /\ \A k \in DOMAIN body : body[k] \in Digits

\* The number a numeric text stands for is zero or less.
NonPositiveText(str) ==
    \/ Head(str) = "-"
    \/ \A k \in DOMAIN str : str[k] \in {"0", "+"}

\* A duration that is not numeric, or is zero or less.
BadDuration(value) ==
    CASE value.t = "NaN" -> TRUE
      [] value.t = "number" -> value.n <= 0
      [] value.t = "string" -> ~NumericText(value.s) \/ NonPositiveText(value.s)

\* C1: createVideo with a duration that is not numeric or is <= 0 fails with
\* a validation error, makes no transport call and builds no SDK client, in
\* either mode.
C1_BadDurationFailsBeforeTransport ==
    \A i \in Invoked :
        (op[i] = "createVideo" /\ BadDuration(args[i].seconds)) =>
            /\ outcome[i].state = "rejected"
            /\ IsDurationError(outcome[i].error) \/ IsSizeError(outcome[i].error)
            /\ issued[i] = <<>>
            /\ clients[i] = <<>>

\* str is digits, "x", digits: the same language as ^\d+x\d+$, read left to
\* right.
MatchesWxH(str) ==
    LET width == DigitPrefix(str)
        rest == SubSeq(str, Len(width) + 1, Len(str))
    IN  /\ width # <<>>
        /\ rest # <<>>
        /\ Head(rest) = "x"
        /\ Tail(rest) # <<>>
        /\ DigitPrefix(Tail(rest)) = Tail(rest)

FieldValues(entries, name) ==
    {entries[k].value : k \in {j \in DOMAIN entries : entries[j].name = name}}

\* C2: when the duration is accepted, createVideo with a size that is not
\* digits-x-digits fails with the size validation error before any client is
\* built or transport call made; a size that is digits-x-digits never draws
\* that error, and every call made carries it unchanged as size.
C2_SizeValidated ==
    \A i \in Invoked :
        (op[i] = "createVideo" /\ ~normalizeSeconds(args[i].seconds).threw) =>
            IF MatchesWxH(args[i].size)
            THEN /\ ~(outcome[i].state = "rejected" /\ IsSizeError(outcome[i].error))
                 /\ (config.mode = "backend" \/ Truthy(config.clientApiKey))
                        => Len(issued[i]) = 1
                 /\ \A k \in DOMAIN issued[i] :
                        FieldValues(issued[i][k].body, "size") = {JsStr(args[i].size)}
            ELSE /\ outcome[i].state = "rejected"
                 /\ IsSizeError(outcome[i].error)
                 /\ issued[i] = <<>>
                 /\ clients[i] = <<>>

C2_Witness ==
    \E i \in Invoked :
        /\ op[i] = "createVideo"
        /\ args[i].seconds = JsStr(<<"8">>)
        /\ args[i].size = <<"1", "x", "a">>
        /\ config.mode = "frontend"
        /\ Truthy(config.clientApiKey)
        /\ outcome[i].state = "rejected"
        /\ issued[i] = <<>>

\* Absent, null or empty.
NotConfigured(v) == v \in {JsUndefined, JsNull, JsStr(<<>>)}
Configured(v) == v.t = "string" /\ v.s # <<>>

ValidCreateInputs(a) == ~BadDuration(a.seconds) /\ MatchesWxH(a.size)

\* C3: in frontend mode with the API key absent, null or empty, every method
\* (createVideo with valid inputs) fails with the configuration error, an
\* Error of the service and not InvalidApiKeyError or a value the transport
\* threw; no SDK client is built and no transport call is made.
C3_MissingKeyIsConfigurationError ==
    \A i \in Invoked :
        ( /\ config.mode = "frontend"
          /\ NotConfigured(config.clientApiKey)
          /\ op[i] = "createVideo" => ValidCreateInputs(args[i]) ) =>
            /\ pc[i] = "done"
            /\ outcome[i].state = "rejected"
            /\ IsConfigurationError(outcome[i].error)
            /\ outcome[i].error.cls # "InvalidApiKeyError"
            /\ clients[i] = <<>>
            /\ issued[i] = <<>>
            /\ settled[i] = Pending

C3_Witness ==
    \E i \in Invoked :
        /\ config.mode = "frontend"
        /\ config.clientApiKey = JsStr(<<>>)
        /\ op[i] = "createVideo"
        /\ ValidCreateInputs(args[i])
        /\ args[i].input_reference.t = "file"
        /\ IsConfigurationError(outcome[i].error)

\* The thrown value has status 401 or 403, or code "invalid_api_key".
InvalidCredentialSignal(e) ==
    \/ e.status \in {JsNum(401), JsNum(403)}
    \/ e.code = JsStr(<<"invalid_api_key">>)

\* C4: in frontend mode, when the provider call rejects with a value whose
\* status is 401 or 403 or whose code is "invalid_api_key", the method fails
\* with InvalidApiKeyError, whatever the value's message and whether or not
\* it is an Error.
C4_InvalidCredentialReclassified ==
    \A i \in Invoked :
        ( /\ config.mode = "frontend"
          /\ settled[i].state = "rejected"
          /\ InvalidCredentialSignal(settled[i].error) ) =>
            /\ pc[i] = "done"
            /\ outcome[i].state = "rejected"
            /\ outcome[i].error.cls = "InvalidApiKeyError"
            /\ outcome[i].error.origin = "service"

C4_Witness ==
    \E i \in Invoked :
        /\ op[i] = "downloadContent"
        /\ settled[i].state = "rejected"
        /\ ~settled[i].error.isError
        /\ settled[i].error.status = JsNum(403)
        /\ settled[i].error.code = JsUndefined
        /\ settled[i].error.message = <<"Rate limit reached">>
        /\ outcome[i].error.cls = "InvalidApiKeyError"

\* C5: in backend mode a response that is not 2xx and whose JSON body has a
\* non-empty error field E fails the method, whichever it is, with an Error
\* whose message is E.
C5_ErrorFieldIsTheMessage ==
    \A i \in Invoked :
        ( /\ config.mode = "backend"
          /\ pc[i] = "done"
          /\ response[i].body.kind = "json"
          /\ ~Ok(response[i])
          /\ Configured(response[i].body.json.error) ) =>
            /\ outcome[i].state = "rejected"
            /\ outcome[i].error.cls = "Error"
            /\ outcome[i].error.message = response[i].body.json.error.s

\* C6: in backend mode createVideo with valid inputs makes one fetch, POST
\* /api/videos with a form whose fields are model, prompt, size and seconds,
\* passwordHash exactly when a hash is configured and input_reference
\* exactly when a file was passed, each once and each with the caller's
\* value.
C6_CreateFormFields ==
    \A i \in Invoked :
        ( /\ config.mode = "backend"
          /\ op[i] = "createVideo"
          /\ ValidCreateInputs(args[i]) ) =>
            /\ Len(issued[i]) = 1
            /\ LET request == issued[i][1]
                   form == request.body
                   names == {form[k].name : k \in DOMAIN form}
               IN  /\ request.via = "fetch"
                   /\ request.method = "POST"
                   /\ request.target = <<"/api/videos">>
                   /\ request.bodyKind = "form"
                   /\ names = {"model", "prompt", "size", "seconds"}
                        \cup (IF Configured(config.clientPasswordHash)
                              THEN {"passwordHash"} ELSE {})
                        \cup (IF args[i].input_reference.t = "file"
                              THEN {"input_reference"} ELSE {})
                   /\ Len(form) = Cardinality(names)
                   /\ FieldValues(form, "model") = {JsStr(args[i].model)}
                   /\ FieldValues(form, "prompt") = {JsStr(args[i].prompt)}
                   /\ FieldValues(form, "size") = {JsStr(args[i].size)}
                   /\ FieldValues(form, "seconds") = {JsStr(toString(args[i].seconds))}
                   /\ FieldValues(form, "passwordHash") \subseteq {config.clientPasswordHash}
                   /\ FieldValues(form, "input_reference") \subseteq {args[i].input_reference}

C6_Witness ==
    \E i \in Invoked :
        /\ config.mode = "backend"
        /\ op[i] = "createVideo"
        /\ ValidCreateInputs(args[i])
        /\ config.clientPasswordHash = JsStr(<<"h", "7", "&", "%">>)
        /\ args[i].input_reference.t = "file"
        /\ args[i].seconds = JsNum(12)
        /\ Len(issued[i]) = 1
        /\ Len(issued[i][1].body) = 6

\* C7: a fulfilled method hands the caller exactly what the transport
\* delivered, in frontend mode as in backend mode: the job the SDK resolved
\* with or the JSON of the response body, the bytes of the content, nothing
\* for deleteVideo.
C7_ResultIsTransportData ==
    \A i \in Invoked :
        (pc[i] = "done" /\ outcome[i].state = "fulfilled") =>
            CASE op[i] \in {"createVideo", "remixVideo", "retrieveVideo"} ->
                    IF config.mode = "frontend"
                    THEN /\ settled[i].kind = "json"
                         /\ outcome[i] = FulfilledJson(settled[i].json)
                    ELSE IF response[i].body.kind = "null"
                    THEN outcome[i].kind = "null"
                    ELSE /\ response[i].body.kind = "json"
                         /\ outcome[i] = FulfilledJson(response[i].body.json)
              [] op[i] = "deleteVideo" -> outcome[i] = FulfilledVoid
              [] op[i] = "downloadContent" ->
                    outcome[i] = FulfilledBlob(response[i].body.bytes)

C7_Witness ==
    \E i \in Invoked :
        /\ config.mode = "frontend"
        /\ op[i] = "retrieveVideo"
        /\ pc[i] = "done"
        /\ outcome[i].state = "fulfilled"
        /\ outcome[i].json.status = JsStr(<<"failed">>)
        /\ outcome[i].json.error = JsStr(<<"moderation">>)

\* The character a percent escape stands for, as the receiving side decodes.
Unescape(h1, h2) ==
    CASE <<h1, h2>> = <<"2", "6">> -> "&"
      [] <<h1, h2>> = <<"2", "5">> -> "%"
      [] <<h1, h2>> = <<"3", "D">> -> "="
      [] <<h1, h2>> = <<"3", "F">> -> "?"
      [] <<h1, h2>> = <<"2", "F">> -> "/"
      [] <<h1, h2>> = <<"2", "3">> -> "#"
      [] <<h1, h2>> = <<"2", "B">> -> "+"
      [] <<h1, h2>> = <<"2", "0">> -> " "
      [] OTHER -> "URIError"

RECURSIVE decodeURIComponent(_)
decodeURIComponent(str) ==
    IF str = <<>> THEN <<>>
    ELSE IF Head(str) # "%" THEN <<Head(str)>> \o decodeURIComponent(Tail(str))
    ELSE IF Len(str) < 3 THEN <<"URIError">>
    ELSE <<Unescape(str[2], str[3])>> \o decodeURIComponent(SubSeq(str, 4, Len(str)))

RECURSIVE UpToDelimiter(_)
UpToDelimiter(str) ==
    IF str = <<>> \/ Head(str) \in {"&", "#"} THEN <<>>
    ELSE <<Head(str)>> \o UpToDelimiter(Tail(str))

\* The values the URL's query gives for password-hash, decoded.
PasswordHashParams(url) ==
    {decodeURIComponent(UpToDelimiter(SubSeq(url, k + 1, Len(url)))) :
        k \in {j \in DOMAIN url : url[j] = "&password-hash="}}

\* C8: in backend mode with a password hash configured, every request carries
\* the hash: createVideo as the form field passwordHash, remixVideo as the
\* JSON property passwordHash, retrieveVideo and deleteVideo as the header
\* x-password-hash, downloadContent as that header and as the query parameter
\* password-hash.
C8_HashOnEveryRequest ==
    \A i \in Invoked :
        (config.mode = "backend" /\ Configured(config.clientPasswordHash)) =>
            \A k \in DOMAIN issued[i] :
                LET request == issued[i][k]
                    hash == config.clientPasswordHash
                    inHeader == FieldValues(request.headers, "x-password-hash") = {hash}
                IN  CASE op[i] = "createVideo" ->
                            /\ request.bodyKind = "form"
                            /\ FieldValues(request.body, "passwordHash") = {hash}
                      [] op[i] = "remixVideo" ->
                            /\ request.bodyKind = "json"
                            /\ FieldValues(request.body, "passwordHash") = {hash}
                      [] op[i] \in {"retrieveVideo", "deleteVideo"} -> inHeader
                      [] op[i] = "downloadContent" ->
                            /\ inHeader
                            /\ PasswordHashParams(request.target) = {hash.s}

C8_Witness ==
    \E i \in Invoked :
        /\ config.mode = "backend"
        /\ config.clientPasswordHash = JsStr(<<"h", "7", "&", "%">>)
        /\ op[i] = "downloadContent"
        /\ Len(issued[i]) = 1
        /\ Len(issued[i][1].headers) = 1

\* The strings a request holds: its URL or id, its header values, its body
\* values (a file by its name).
Texts(request) ==
    {request.target}
        \cup {request.headers[k].value.s : k \in DOMAIN request.headers}
        \cup {request.body[k].value.s : k \in DOMAIN request.body}

Occurs(secret, text) ==
    \E k \in 1..(Len(text) - Len(secret) + 1) :
        SubSeq(text, k, k + Len(secret) - 1) = secret

\* The fetch a method makes for its arguments under a configuration.
BackendRequest(cfg, method, a) ==
    CASE method = "createVideo" -> createFetch(cfg, a, a.size, toString(a.seconds))
      [] method = "remixVideo" -> remixFetch(cfg, a.videoId, a.prompt)
      [] method = "retrieveVideo" -> retrieveFetch(cfg, a.videoId)
      [] method = "deleteVideo" -> deleteFetch(cfg, a.videoId)
      [] method = "downloadContent" ->
            downloadFetch(cfg, a.videoId, defaultVariant(a.variant))

\* C9: in backend mode no SDK client is built and no request holds the API
\* key in its URL, headers or body, and the request is the one that any other
\* API key would give; in frontend mode every call goes to the SDK, holds the
\* password hash nowhere, and the client is built from the API key and the
\* base URL alone.
C9_CredentialSeparation ==
    \A i \in Invoked :
        \A k \in DOMAIN issued[i] :
            LET request == issued[i][k]
            IN  IF config.mode = "backend"
                THEN /\ request.via = "fetch"
                     /\ clients[i] = <<>>
                     /\ Configured(config.clientApiKey) =>
                            \A text \in Texts(request) :
                                ~Occurs(config.clientApiKey.s, text)
                     /\ \A key \in ApiKeys :
                            request = BackendRequest([config EXCEPT !.clientApiKey = key],
                                                     op[i], args[i])
                ELSE /\ request.via = "sdk"
                     /\ Configured(config.clientPasswordHash) =>
                            \A text \in Texts(request) :
                                ~Occurs(config.clientPasswordHash.s, text)
                     /\ clients[i] = <<[apiKey |-> config.clientApiKey,
                                        baseURL |-> config.baseURL]>>

C9_Witness ==
    \E i \in Invoked :
        /\ config.mode = "backend"
        /\ config.clientApiKey = JsStr(<<"sk-live">>)
        /\ config.clientPasswordHash = JsUndefined
        /\ op[i] = "retrieveVideo"
        /\ Len(issued[i]) = 1

\* C10: an invocation makes at most one transport call, in the step that
\* starts it and never later; when the call rejects the invocation ends
\* rejected, and once ended it stays as it ended.
C10_NoRetry ==
    [][\A i \in Calls :
        /\ Len(issued'[i]) <= 1
        /\ pc[i] # "idle" => issued'[i] = issued[i]
        /\ settled'[i].state = "rejected" =>
                pc'[i] = "done" /\ outcome'[i].state = "rejected"
        /\ pc[i] = "done" => pc'[i] = "done" /\ outcome'[i] = outcome[i]]_vars

C10_Witness ==
    \E i \in Invoked :
        /\ config.mode = "backend"
        /\ pc[i] = "done"
        /\ settled[i].state = "rejected"
        /\ outcome[i].state = "rejected"
        /\ outcome[i].error.origin = "runtime"
        /\ Len(issued[i]) = 1

\* How deleteVideo ends, from what its own transport call delivered.
DeleteOutcome(cfg, own, r) ==
    IF cfg.mode = "frontend"
    THEN IF own.state = "rejected"
         THEN IF InvalidCredentialSignal(own.error)
              THEN Rejected(NewError("InvalidApiKeyError", <<"InvalidApiKeyError">>))
              ELSE IF own.error.isError THEN Rejected(own.error)
              ELSE Rejected(NewError("Error",
                        <<"Unexpected error while communicating with OpenAI.">>))
         ELSE FulfilledVoid
    ELSE IF own.state = "rejected" THEN Rejected(own.error)
    ELSE IF r.status >= 200 /\ r.status <= 299 THEN FulfilledVoid
    ELSE IF r.body.kind = "json"
    THEN Rejected(NewError("Error",
            IF Configured(r.body.json.error) THEN r.body.json.error.s
            ELSE <<"Failed to delete video">>))
    ELSE IF r.body.kind = "invalid"
    THEN Rejected(RuntimeError("SyntaxError", <<"Unexpected token in JSON">>))
    ELSE IF r.body.kind = "aborted"
    THEN Rejected(RuntimeError("TypeError", <<"Failed to fetch">>))
    ELSE Rejected(RuntimeError("TypeError",
            <<"Cannot read properties of null (reading 'error')">>))

IsDeleteRequest(cfg, request, videoId) ==
    IF cfg.mode = "frontend"
    THEN request.via = "sdk" /\ request.method = "videos.delete" /\ request.target = videoId
    ELSE /\ request.via = "fetch"
         /\ request.method = "DELETE"
         /\ request.target = <<"/api/videos/">> \o videoId

\* C11: with two deleteVideo invocations on one service, whatever the other
\* is doing, an invocation can start, makes its own delete request (when the
\* mode's credential check lets any request out), can have that request
\* settle, and ends as its own transport result says; and a step of one
\* invocation changes nothing of the other.
C11_RacingDeletesIndependent ==
    /\ [](\A i \in Calls :
            /\ pc[i] = "idle" => ENABLED deleteVideo(i)
            /\ pc[i] = "awaitFetch" => ENABLED FetchFulfilled(i) /\ ENABLED FetchRejected(i)
            /\ pc[i] = "awaitSdk" => ENABLED SdkFulfilled(i) /\ ENABLED SdkRejected(i)
            /\ pc[i] = "awaitErrorJson" => ENABLED ErrorJson(i)
            /\ (op[i] = "deleteVideo"
                    /\ (config.mode = "backend" \/ ~NotConfigured(config.clientApiKey))) =>
                    /\ Len(issued[i]) = 1
                    /\ IsDeleteRequest(config, issued[i][1], args[i].videoId)
            /\ (op[i] = "deleteVideo" /\ pc[i] = "done" /\ issued[i] # <<>>) =>
                    outcome[i] = DeleteOutcome(config, settled[i], response[i]))
    /\ [][\A i \in Calls :
            pc'[i] # pc[i] =>
                \A j \in Calls \ {i} :
                    /\ pc'[j] = pc[j]
                    /\ issued'[j] = issued[j]
                    /\ settled'[j] = settled[j]
                    /\ response'[j] = response[j]
                    /\ outcome'[j] = outcome[j]]_vars

\* Both deletes of the same video are in flight at once, each with its own
\* request out: the second has its answer, the first still waits.
C11_Witness ==
    /\ config.mode = "backend"
    /\ \A i \in Calls : op[i] = "deleteVideo" /\ Len(issued[i]) = 1
    /\ args[1].videoId = args[2].videoId
    /\ issued[1] = issued[2]
    /\ pc[1] = "awaitFetch"
    /\ pc[2] = "awaitErrorJson"
    /\ response[2].body.json.error = JsStr(<<"quota exceeded">>)

\* The decimal numeral of the integer parseInt reads from the duration.
CanonicalSeconds(value) == NatToString(parseInt(toString(value)).n)

\* C12: when normalizeSeconds accepts the duration, the seconds createVideo
\* transmits, in either mode, is the canonical decimal string of the positive
\* integer parsed from it, so inputs that parse to the same integer are
\* transmitted alike.
C12_SecondsCanonical ==
    \A i \in Invoked :
        (op[i] = "createVideo" /\ ~normalizeSeconds(args[i].seconds).threw) =>
            \A k \in DOMAIN issued[i] :
                FieldValues(issued[i][k].body, "seconds")
                    = {JsStr(CanonicalSeconds(args[i].seconds))}

RECURSIVE UpToNextParam(_)
UpToNextParam(str) ==
    IF str = <<>> \/ Head(str) \in {"&", "#", "&password-hash="} THEN <<>>
    ELSE <<Head(str)>> \o UpToNextParam(Tail(str))

\* The values the URL's query gives for variant.
VariantParams(url) ==
    {UpToNextParam(SubSeq(url, k + 1, Len(url))) :
        k \in {j \in DOMAIN url : url[j] = "/content?variant="}}

\* C13: downloadContent called without a variant asks the transport for
\* "video": the SDK call gets {variant: "video"}, the fetched URL has
\* variant=video; and a call is made whenever the mode's credential check
\* lets one out.
C13_DefaultVariantIsVideo ==
    \A i \in Invoked :
        (op[i] = "downloadContent" /\ args[i].variant = JsUndefined) =>
            /\ (config.mode = "backend" \/ ~NotConfigured(config.clientApiKey))
                    => Len(issued[i]) = 1
            /\ \A k \in DOMAIN issued[i] :
                    IF config.mode = "frontend"
                    THEN /\ issued[i][k].method = "videos.downloadContent"
                         /\ issued[i][k].body = <<Entry("variant", JsStr(<<"video">>))>>
                    ELSE VariantParams(issued[i][k].target) = {<<"video">>}

C13_Witness ==
    \E i \in Invoked :
        /\ op[i] = "downloadContent"
        /\ args[i].variant = JsUndefined
        /\ config.mode = "backend"
        /\ Configured(config.clientPasswordHash)
        /\ Len(issued[i]) = 1
        /\ pc[i] = "done"
        /\ outcome[i].state = "fulfilled"

\* C14: in frontend mode, when the provider call rejects with a value that
\* has neither status 401 or 403 nor code "invalid_api_key": an Error is
\* thrown on as it is, the same value; anything else gives an Error of the
\* service with one fixed message.
C14_OtherErrorsRethrownOrWrapped ==
    \A i \in Invoked :
        ( /\ config.mode = "frontend"
          /\ settled[i].state = "rejected"
          /\ ~InvalidCredentialSignal(settled[i].error) ) =>
            /\ pc[i] = "done"
            /\ IF settled[i].error.isError
               THEN outcome[i] = Rejected(settled[i].error)
               ELSE outcome[i] = Rejected(NewError("Error",
                        <<"Unexpected error while communicating with OpenAI.">>))

C14_Witness ==
    \E i \in Invoked :
        /\ config.mode = "frontend"
        /\ op[i] = "remixVideo"
        /\ settled[i].state = "rejected"
        /\ settled[i].error.isError
        /\ settled[i].error.status = JsNum(500)
        /\ settled[i].error.code = JsStr(<<"rate_limit_exceeded">>)
        /\ outcome[i].error.origin = "sdk"
        /\ outcome[i].error.message = <<"Rate limit reached">>

\* C15: in backend mode a response outside 200..299 never ends the method
\* fulfilled: the method is rejected at once or reads the error body and is
\* then rejected, also when the body is no JSON, is broken off, is null, or
\* is JSON without an error field.
C15_Non2xxAlwaysThrows ==
    \A i \in Invoked :
        ( /\ config.mode = "backend"
          /\ response[i] # NoResponse
          /\ ~(response[i].status >= 200 /\ response[i].status <= 299) ) =>
            /\ pc[i] \in {"awaitErrorJson", "done"}
            /\ pc[i] = "awaitErrorJson" =>
                    /\ op[i] \in {"createVideo", "remixVideo", "deleteVideo"}
                    /\ outcome[i] = Pending
                    /\ ENABLED ErrorJson(i)
            /\ pc[i] = "done" =>
                    /\ outcome[i].state = "rejected"
                    /\ outcome[i].error.isError

C15_Witness ==
    \E i \in Invoked :
        /\ config.mode = "backend"
        /\ op[i] = "createVideo"
        /\ response[i].status = 500
        /\ response[i].body.kind = "invalid"
        /\ pc[i] = "done"
        /\ outcome[i].state = "rejected"
        /\ outcome[i].error.cls = "SyntaxError"

\* C16: in backend mode with the password hash absent or null, no request
\* has a passwordHash form field or JSON property, an x-password-hash header
\* or a password-hash query parameter.
C16_NoHashNoChannel ==
    \A i \in Invoked :
        (config.mode = "backend" /\ config.clientPasswordHash \in {JsUndefined, JsNull}) =>
            \A k \in DOMAIN issued[i] :
                /\ \A j \in DOMAIN issued[i][k].body :
                        issued[i][k].body[j].name # "passwordHash"
                /\ \A j \in DOMAIN issued[i][k].headers :
                        issued[i][k].headers[j].name # "x-password-hash"
                /\ PasswordHashParams(issued[i][k].target) = {}

====
